---- MODULE Spec2Model ----
(***************************************************************************)
(* nitter_to_telegram_runonce.py: one pass over the configured accounts,   *)
(* relaying the posts newer than each account's cursor to the messaging    *)
(* endpoint, then saving the cursor store.  Repeated runs are chained      *)
(* through the state file.                                                 *)
(***************************************************************************)
EXTENDS Integers, Sequences, FiniteSets, TLC

\* ------------------------------------------------------------------ bounds
\* Number of consecutive runs of the program that are explored.
MaxRuns == 2
\* Longest fetched page, in timeline items.
MaxItems == 2
\* Longest list of extracted posts given to the delta selection on its own.
MaxLen == 3

\* ------------------------------------------------------- program constants
\* 48*1024*1024, the default of MAX_DOWNLOAD_BYTES.
MAX_DOWNLOAD_BYTES == 50331648

\* None where a string is expected (an absent attribute, an absent element).
None == "None"
\* None where a post identifier is expected: state.get(username) of a new account.
NoCursor == <<"None">>

\* --------------------------------------------------------- int(str) of ids
\* A string is a sequence of one-character tokens.  "#m" stands for the
\* fragment a mirror appends to a post link; it is not a digit.
DigitVal == [c \in {"0", "1", "2", "9"} |->
               CASE c = "0" -> 0 [] c = "1" -> 1 [] c = "2" -> 2 [] c = "9" -> 9]

IsDigit(c) == c \in DOMAIN DigitVal

\* int(s) raises ValueError unless s is a non-empty string of digits.
IsNumeric(s) == Len(s) > 0 /\ \A i \in 1..Len(s) : IsDigit(s[i])

RECURSIVE int(_)
int(s) == IF Len(s) = 0 THEN 0
          ELSE 10 * int(SubSeq(s, 1, Len(s) - 1)) + DigitVal[s[Len(s)]]

\* Lexical (string) order, the order Python gives str < str.
CharRank == [c \in {"#m", "0", "1", "2", "9"} |->
               CASE c = "#m" -> 0 [] c = "0" -> 1 [] c = "1" -> 2
                 [] c = "2" -> 3 [] c = "9" -> 4]

RECURSIVE StrLess(_, _)
StrLess(a, b) ==
    IF Len(b) = 0 THEN FALSE
    ELSE IF Len(a) = 0 THEN TRUE
    ELSE IF a[1] # b[1] THEN CharRank[a[1]] < CharRank[b[1]]
    ELSE StrLess(Tail(a), Tail(b))

\* ------------------------------------------------------------ the accounts
\* Lines of the accounts file.  "" is a blank line, "#c" a comment line.
IsAccountLine(l) == l # "" /\ l # "#c"

RECURSIVE FilterLines(_)
FilterLines(ls) ==
    IF ls = <<>> THEN <<>>
    ELSE IF IsAccountLine(Head(ls)) THEN <<Head(ls)>> \o FilterLines(Tail(ls))
    ELSE FilterLines(Tail(ls))

\* read_accounts: [] when the file is missing, else the kept lines in order.
read_accounts(file) == IF ~file.exists THEN <<>> ELSE FilterLines(file.lines)

Accounts == {"alice", "bob"}

AccountFiles == { [exists |-> FALSE, lines |-> <<>>],
                  [exists |-> TRUE, lines |-> <<"bob">>],
                  [exists |-> TRUE, lines |-> <<"#c", "alice", "", "bob">>] }

\* --------------------------------------------------------- the cursor store
\* A dict is a function on the set of its keys.
EmptyDict == [k \in {} |-> NoCursor]

DictGet(d, k) == IF k \in DOMAIN d THEN d[k] ELSE NoCursor

DictSet(d, k, v) == [x \in DOMAIN d \cup {k} |-> IF x = k THEN v ELSE d[x]]

\* The state file is absent, unparsable, or the text json.dumps wrote: the
\* set of its "key": "value" members.
Absent == [kind |-> "absent", text |-> {}]
Corrupt == [kind |-> "corrupt", text |-> {}]

json_dumps(d) == [kind |-> "json", text |-> { <<k, d[k]>> : k \in DOMAIN d }]

json_loads(text) ==
    [k \in { m[1] : m \in text } |-> (CHOOSE m \in text : m[1] = k)[2]]

load_state(file) ==
    IF file.kind = "absent" THEN EmptyDict
    ELSE IF file.kind = "corrupt" THEN EmptyDict
    ELSE json_loads(file.text)

save_nothing(d) == json_dumps(EmptyDict)

\* save_state: the whole mapping is written over the file.
save_state(d) == json_dumps(d)

\* ------------------------------------------------------------ the extractor
\* A URL: whether it is absolute, its path without the suffix, its suffix.
\* The empty URL is an absent (or empty) src attribute.
Url(stem, ext) == [abs |-> FALSE, stem |-> stem, ext |-> ext]

NoUrl == [abs |-> FALSE, stem |-> "", ext |-> ""]

\* urljoin(NITTER_BASE, src): a relative URL is resolved against the mirror.
urljoin(u) == [u EXCEPT !.abs = TRUE]

\* An href is a sequence of tokens; "/status/" marks a post link and "?"
\* starts the query.
HasStatus(href) == \E i \in 1..Len(href) : href[i] = "/status/"

\* split("/status/")[-1]
RECURSIVE AfterLastStatus(_)
AfterLastStatus(href) ==
    IF HasStatus(href) THEN AfterLastStatus(Tail(href)) ELSE href

\* split("?")[0]
RECURSIVE BeforeQuery(_)
BeforeQuery(s) ==
    IF s = <<>> \/ Head(s) = "?" THEN <<>> ELSE <<Head(s)>> \o BeforeQuery(Tail(s))

\* The first anchor whose href contains "/status/", or no link.
RECURSIVE FirstStatusLink(_)
FirstStatusLink(anchors) ==
    IF anchors = <<>> THEN <<>>
    ELSE IF HasStatus(Head(anchors)) THEN Head(anchors)
    ELSE FirstStatusLink(Tail(anchors))

TidOf(tweet_link) == BeforeQuery(AfterLastStatus(tweet_link))

\* img.get("data-src") or img.get("src"), kept when not empty
RECURSIVE ImgUrls(_)
ImgUrls(imgs) ==
    IF imgs = <<>> THEN <<>>
    ELSE LET img == Head(imgs)
             src == IF img.data_src # NoUrl THEN img.data_src ELSE img.src
         IN  (IF src # NoUrl THEN <<urljoin(src)>> ELSE <<>>) \o ImgUrls(Tail(imgs))

RECURSIVE SourceUrls(_)
SourceUrls(sources) ==
    IF sources = <<>> THEN <<>>
    ELSE (IF Head(sources) # NoUrl THEN <<urljoin(Head(sources))>> ELSE <<>>)
         \o SourceUrls(Tail(sources))

RECURSIVE VideoUrls(_)
VideoUrls(videos) ==
    IF videos = <<>> THEN <<>>
    ELSE LET video == Head(videos)
         IN  (IF video.src # NoUrl THEN <<urljoin(video.src)>> ELSE <<>>)
             \o SourceUrls(video.sources) \o VideoUrls(Tail(videos))

\* list(dict.fromkeys(media_urls)): duplicates removed, first occurrence kept
RECURSIVE Dedup(_)
Dedup(s) ==
    IF s = <<>> THEN <<>>
    ELSE LET init == Dedup(SubSeq(s, 1, Len(s) - 1))
             x == s[Len(s)]
         IN  IF \E i \in 1..Len(init) : init[i] = x THEN init ELSE Append(init, x)

\* One timeline item: no post when it has no post link, else the post.
ParseItem(div) ==
    LET tweet_link == FirstStatusLink(div.anchors)
    IN  IF tweet_link = <<>> THEN <<>>
        ELSE << [ id |-> TidOf(tweet_link),
                  url |-> tweet_link,
                  text |-> IF div.content # None THEN div.content ELSE "",
                  media |-> Dedup(ImgUrls(div.imgs) \o VideoUrls(div.videos)) ] >>

RECURSIVE parse_tweets_from_nitter(_)
parse_tweets_from_nitter(html) ==
    IF html = <<>> THEN <<>>
    ELSE ParseItem(Head(html)) \o parse_tweets_from_nitter(Tail(html))

\* --------------------------------------------------------- the fetched pages
Photo == Url("/pic/a", ".JPG")
Clip == Url("/pic/v", ".mp4")
Blob == Url("/pic/f", "")

NoItem == [anchors |-> <<>>, content |-> None, imgs |-> <<>>, videos |-> <<>>]

\* A block without a post link (a "show more" or advertisement block).
ItemAd == [NoItem EXCEPT !.anchors = << <<"/u">> >>, !.content = "ad"]

\* Post 9: a link after a profile anchor, no content element, no media.
Item9 == [NoItem EXCEPT !.anchors = << <<"/u">>, <<"/u", "/status/", "9">> >>]

\* Post 10: a link with a query; an image (lazy-load attribute preferred to
\* the eager one, then the same image again), a video given by a source tag
\* and a video whose URL has no suffix.
Item10 ==
    [NoItem EXCEPT !.anchors = << <<"/u", "/status/", "1", "0", "?", "2">> >>,
                   !.content = "ten",
                   !.imgs = << [data_src |-> Photo, src |-> Url("/pic/lazy", ".png")],
                               [data_src |-> NoUrl, src |-> Photo] >>,
                   !.videos = << [src |-> NoUrl, sources |-> <<Clip>>],
                                 [src |-> Blob, sources |-> <<>>] >>]

\* A post link that carries the mirror's fragment: its identifier is "9#m".
ItemFrag ==
    [NoItem EXCEPT !.anchors = << <<"/u", "/status/", "9", "#m">> >>,
                   !.content = "frag"]

ItemPool == {ItemAd, Item9, Item10, ItemFrag}

RECURSIVE SeqsUpTo(_, _)
SeqsUpTo(S, n) ==
    IF n = 0 THEN { <<>> }
    ELSE LET shorter == SeqsUpTo(S, n - 1)
         IN  shorter \cup { Append(q, x) : q \in shorter, x \in S }

NoRepeat(q) == \A i, j \in 1..Len(q) : q[i] = q[j] => i = j

\* A page shows up to MaxItems blocks, in any order, each block once.
Pages == { q \in SeqsUpTo(ItemPool, MaxItems) : NoRepeat(q) }

\* fetch_html: None on any failure, else the page's markup.
NoHtml == [ok |-> FALSE, items |-> <<>>]

FetchResults == {NoHtml} \cup { [ok |-> TRUE, items |-> p] : p \in Pages }

\* ----------------------------------------------------------- delta selection
\* sorted(tweets, key=lambda t: int(t["id"])): stable, ascending.
RECURSIVE Insert(_, _)
Insert(sorted, t) ==
    IF sorted = <<>> THEN <<t>>
    ELSE IF int(sorted[Len(sorted)].id) <= int(t.id) THEN Append(sorted, t)
    ELSE Append(Insert(SubSeq(sorted, 1, Len(sorted) - 1), t), sorted[Len(sorted)])

RECURSIVE SortedByIdFrom(_, _)
SortedByIdFrom(acc, rest) ==
    IF rest = <<>> THEN acc ELSE SortedByIdFrom(Insert(acc, Head(rest)), Tail(rest))

Unsorted(tweets) == tweets

SortedById(tweets) == SortedByIdFrom(<<>>, tweets)

IsNewLexical(t, last_seen) == last_seen = NoCursor \/ StrLess(last_seen, t.id)

IsNewOrEqual(t, last_seen) == last_seen = NoCursor \/ int(t.id) >= int(last_seen)

\* last_seen is None or int(t["id"]) > int(last_seen)
IsNew(t, last_seen) == last_seen = NoCursor \/ int(t.id) > int(last_seen)

RECURSIVE Filter(_, _)
Filter(ts, last_seen) ==
    IF ts = <<>> THEN <<>>
    ELSE (IF IsNew(Head(ts), last_seen) THEN <<Head(ts)>> ELSE <<>>)
         \o Filter(Tail(ts), last_seen)

\* int() raises ValueError on an identifier that is not a string of digits:
\* in the sort key for any post, in the filter for the cursor.
SelectRaises(tweets, last_seen) ==
    \/ \E i \in 1..Len(tweets) : ~IsNumeric(tweets[i].id)
    \/ last_seen # NoCursor /\ ~IsNumeric(last_seen)

Select(tweets, last_seen) == Filter(SortedById(tweets), last_seen)

\* -------------------------------------------------------------- media relay
\* get_head_size: None, or the Content-Length of a 200 answer.
NoSize == -1

Sizes == {NoSize, 0, MAX_DOWNLOAD_BYTES, MAX_DOWNLOAD_BYTES + 1}

TooBigPastMargin(size) ==
    size # NoSize /\ size # 0 /\ size > MAX_DOWNLOAD_BYTES + 5 * 1024 * 1024

\* size and size > MAX_DOWNLOAD_BYTES
TooBig(size) == size # NoSize /\ size # 0 /\ size > MAX_DOWNLOAD_BYTES

\* pathlib.Path(urlparse(murl).path).suffix or ".bin"
Suffix(murl) == IF murl.ext # "" THEN murl.ext ELSE ".bin"

\* ext.lower()
Lower(ext) == CASE ext = ".JPG" -> ".jpg"
                [] ext = ".MP4" -> ".mp4"
                [] OTHER -> ext

IsPhotoExt(ext) == Lower(ext) \in {".jpg", ".jpeg", ".png", ".webp"}

IsVideoExt(ext) == Lower(ext) \in {".mp4", ".mov", ".webm", ".gif"}

\* f"{username} - {t['url']}\n\n{t['text']}"[:1024]: the three parts; texts
\* have no length here, so the cut at 1024 characters changes nothing.
NoCaption == [username |-> "", url |-> <<>>, text |-> ""]

CaptionOf(username, t) == [username |-> username, url |-> t.url, text |-> t.text]

CaptionAlways(sent_any, caption) == caption

\* caption=None if sent_any else caption
CaptionArg(sent_any, caption) == IF sent_any THEN NoCaption ELSE caption

\* A message handed to the messaging endpoint: the operation, what the text
\* says, the caption it carries, the media URL it names, and the answer.
NoMsg == [op |-> "none", kind |-> "none", caption |-> NoCaption, murl |-> NoUrl,
          ok |-> FALSE]

Msg(op, kind, caption, murl, ok) ==
    [op |-> op, kind |-> kind, caption |-> caption, murl |-> murl, ok |-> ok]

\* The last pass of the media loop: the item, whether the probe reported a
\* length above the maximum, whether download_media was called, the message
\* sent, and whether an earlier item of the post had been sent successfully.
NoStep == [murl |-> NoUrl, big |-> FALSE, downloaded |-> FALSE, msg |-> NoMsg,
           after_ok |-> FALSE]

\* What happened to the post being relayed: whether a send before the
\* fallback returned success, whether a media item was sent successfully,
\* whether an item was too large, whether the fallback text was sent and
\* accepted.
NewPost == [any_ok |-> FALSE, media_ok |-> FALSE, big_seen |-> FALSE,
            fallback |-> FALSE, fallback_ok |-> FALSE, last |-> NoStep]

SentAfterFailedDownload(sent_any) == TRUE

\* A failed download leaves sent_any as it was.
SentAfterDownloadFailure(sent_any) == sent_any

AdvanceIfSent(d, username, tid, sent) == IF sent THEN DictSet(d, username, tid) ELSE d

\* state[username] = t['id']
Advance(d, username, tid, sent) == DictSet(d, username, tid)

AbortLoop(i, accs) == Len(accs) + 1

\* except Exception: the error is logged and the loop goes on with the next
\* account.
NextAfterError(i, accs) == i + 1

\* -------------------------------------------------------------------- state
VARIABLES
    state_file,  \* the state file on disk
    state,       \* the cursor store in memory
    pc,          \* "idle" between runs, "loop" in main, "post" and "advance"
                 \* in handle_account's loop over to_send, "saved" at exit
    run,         \* number of finished runs
    accounts,    \* what read_accounts returned in this run
    acc_i,       \* index of main's loop in accounts
    tweets,      \* what parse_tweets_from_nitter returned for the account
    to_send,     \* the selected posts of the account
    post_i,      \* index of handle_account's loop in to_send
    media_i,     \* index of the media loop in the post's media
    sent_any,    \* handle_account's flag of the post
    post,        \* history: the sends of the post being relayed
    handled,     \* history: the accounts handed to handle_account in this run
    result,      \* history: how the last handle_account call ended
    errors,      \* history: the accounts whose handling raised in this run
    saves,       \* history: number of save_state calls of this run
    watch,       \* the account whose posts the histories below follow
    done_prev,   \* history: ids of watch processed in earlier runs
    done_now,    \* history: ids of watch processed in this run
    seen_prev,   \* history: the ids of watch the previous run extracted
    seen_now     \* history: the ids of watch this run extracted

vars == << state_file, state, pc, run, accounts, acc_i, tweets, to_send, post_i,
           media_i, sent_any, post, handled, result, errors, saves, watch,
           done_prev, done_now, seen_prev, seen_now >>

Unseen == [seen |-> FALSE, ids |-> {}]

Ids(ts) == { ts[i].id : i \in 1..Len(ts) }

Init ==
    /\ state_file \in {Absent, Corrupt}
    /\ state = EmptyDict
    /\ pc = "idle"
    /\ run = 0
    /\ accounts = <<>>
    /\ acc_i = 1
    /\ tweets = <<>>
    /\ to_send = <<>>
    /\ post_i = 1
    /\ media_i = 1
    /\ sent_any = FALSE
    /\ post = NewPost
    /\ handled = <<>>
    /\ result = "none"
    /\ errors = {}
    /\ saves = 0
    /\ watch \in Accounts
    /\ done_prev = {}
    /\ done_now = {}
    /\ seen_prev = Unseen
    /\ seen_now = Unseen

username == accounts[acc_i]

t == to_send[post_i]

\* main, lines 214-218: read the accounts, return when there are none, else
\* load the cursor store and enter the loop.
MainStart ==
    /\ pc = "idle"
    /\ run < MaxRuns
    /\ \E file \in AccountFiles :
         /\ accounts' = read_accounts(file)
         /\ IF accounts' = <<>>
            THEN /\ state' = EmptyDict
                 /\ pc' = "exit"
            ELSE /\ state' = load_state(state_file)
                 /\ pc' = "loop"
    /\ UNCHANGED << state_file, run, acc_i, tweets, to_send, post_i, media_i,
                    sent_any, post, handled, result, errors, saves, watch,
                    done_prev, done_now, seen_prev, seen_now >>

\* handle_account returns, or raises into main's except clause.
Returned(how) ==
    /\ result' = how
    /\ errors' = IF how = "raised" THEN errors \cup {username} ELSE errors
    /\ acc_i' = IF how = "raised" THEN NextAfterError(acc_i, accounts)
                ELSE acc_i + 1
    /\ pc' = "loop"

\* handle_account, lines 158-172: fetch, extract, sort and select.
HandleAccount ==
    /\ pc = "loop"
    /\ acc_i <= Len(accounts)
    /\ handled' = Append(handled, username)
    /\ \E html \in FetchResults :
         IF ~html.ok
         THEN /\ Returned("no_html")
              /\ tweets' = <<>>
              /\ to_send' = <<>>
              /\ UNCHANGED seen_now
         ELSE /\ tweets' = parse_tweets_from_nitter(html.items)
              /\ seen_now' = IF username = watch
                             THEN [seen |-> TRUE, ids |-> Ids(tweets')]
                             ELSE seen_now
              /\ IF tweets' = <<>>
                 THEN /\ Returned("no_tweets")
                      /\ to_send' = <<>>
                 ELSE IF SelectRaises(tweets', DictGet(state, username))
                 THEN /\ Returned("raised")
                      /\ to_send' = <<>>
                 ELSE /\ to_send' = Select(tweets', DictGet(state, username))
                      /\ IF to_send' = <<>>
                         THEN Returned("no_new")
                         ELSE /\ pc' = "post"
                              /\ result' = "running"
                              /\ UNCHANGED << acc_i, errors >>
    /\ post_i' = 1
    /\ media_i' = 1
    /\ sent_any' = FALSE
    /\ post' = NewPost
    /\ UNCHANGED << state_file, state, run, accounts, saves, watch, done_prev,
                    done_now, seen_prev >>

\* One pass of the media loop, lines 177-204: probe, then either the "too
\* large" notice, or the download and its failure notice, or the dispatch by
\* extension.  size, exists and ok are the answers of the probe, of the
\* download (True and the file is there) and of the one send of the pass.
PostMedia ==
    /\ pc = "post"
    /\ media_i <= Len(t.media)
    /\ \E size \in Sizes, exists \in BOOLEAN, ok \in BOOLEAN :
         LET raw == t.media[media_i]
             murl == IF ~raw.abs THEN urljoin(raw) ELSE raw
             caption == CaptionOf(username, t)
             ext == Suffix(murl)
             step(downloaded, msg) ==
                 [murl |-> murl, big |-> (size # NoSize /\ size > MAX_DOWNLOAD_BYTES),
                  downloaded |-> downloaded, msg |-> msg,
                  after_ok |-> post.media_ok]
         IN  IF TooBig(size)
             THEN /\ sent_any' = TRUE
                  /\ post' = [post EXCEPT
                        !.any_ok = @ \/ ok,
                        !.big_seen = TRUE,
                        !.last = step(FALSE, Msg("text", "too_large", caption, murl, ok))]
             ELSE IF ~exists
             THEN /\ sent_any' = SentAfterDownloadFailure(sent_any)
                  /\ post' = [post EXCEPT
                        !.any_ok = @ \/ ok,
                        !.last = step(TRUE, Msg("text", "no_download", caption, murl, ok))]
             ELSE /\ sent_any' = (sent_any \/ ok)
                  /\ post' = [post EXCEPT
                        !.any_ok = @ \/ ok,
                        !.media_ok = @ \/ ok,
                        !.last = step(TRUE,
                            IF IsPhotoExt(ext)
                            THEN Msg("photo", "upload", CaptionArg(sent_any, caption),
                                     murl, ok)
                            ELSE IF IsVideoExt(ext)
                            THEN Msg("video", "upload", CaptionArg(sent_any, caption),
                                     murl, ok)
                            ELSE Msg("text", "raw_link", caption, murl, ok))]
    /\ media_i' = media_i + 1
    /\ UNCHANGED << state_file, state, pc, run, accounts, acc_i, tweets, to_send,
                    post_i, handled, result, errors, saves, watch, done_prev,
                    done_now, seen_prev, seen_now >>

\* Lines 205-209, after the media loop: the plain text of a post without
\* media, and the fallback text when sent_any is still False.
PostFallback ==
    /\ pc = "post"
    /\ media_i > Len(t.media)
    /\ \E ok \in BOOLEAN :
         IF t.media = <<>>
         THEN /\ sent_any' = TRUE
              /\ post' = [post EXCEPT !.any_ok = ok]
         ELSE /\ post' = [post EXCEPT !.fallback = ~sent_any,
                                      !.fallback_ok = ~sent_any /\ ok]
              /\ UNCHANGED sent_any
    /\ pc' = "advance"
    /\ UNCHANGED << state_file, state, run, accounts, acc_i, tweets, to_send,
                    post_i, media_i, handled, result, errors, saves, watch,
                    done_prev, done_now, seen_prev, seen_now >>

\* Lines 210-211 and the loop's step: the cursor is set to the post's id;
\* after the last post handle_account returns.
PostAdvance ==
    /\ pc = "advance"
    /\ state' = Advance(state, username, t.id, sent_any)
    /\ done_now' = IF username = watch THEN done_now \cup {t.id} ELSE done_now
    /\ IF post_i < Len(to_send)
       THEN /\ post_i' = post_i + 1
            /\ media_i' = 1
            /\ sent_any' = FALSE
            /\ post' = NewPost
            /\ pc' = "post"
            /\ UNCHANGED << acc_i, result >>
       ELSE /\ result' = "relayed"
            /\ acc_i' = acc_i + 1
            /\ pc' = "loop"
            /\ UNCHANGED << post_i, media_i, sent_any, post >>
    /\ UNCHANGED << state_file, run, accounts, tweets, to_send, handled, errors,
                    saves, watch, done_prev, seen_prev, seen_now >>

\* main, lines 224-225: after the loop the cursor store is written, once.
MainSave ==
    /\ pc = "loop"
    /\ acc_i > Len(accounts)
    /\ state_file' = save_state(state)
    /\ saves' = saves + 1
    /\ pc' = "exit"
    /\ UNCHANGED << state, run, accounts, acc_i, tweets, to_send, post_i, media_i,
                    sent_any, post, handled, result, errors, watch, done_prev,
                    done_now, seen_prev, seen_now >>

\* The process exits: its memory is gone, the state file stays.  The
\* histories of the run become those of the previous run.
Exit ==
    /\ pc = "exit"
    /\ pc' = "idle"
    /\ run' = run + 1
    /\ state' = EmptyDict
    /\ accounts' = <<>>
    /\ acc_i' = 1
    /\ tweets' = <<>>
    /\ to_send' = <<>>
    /\ handled' = <<>>
    /\ result' = "none"
    /\ errors' = {}
    /\ saves' = 0
    /\ done_prev' = done_prev \cup done_now
    /\ done_now' = {}
    /\ seen_prev' = seen_now
    /\ seen_now' = Unseen
    /\ post_i' = 1
    /\ media_i' = 1
    /\ sent_any' = FALSE
    /\ post' = NewPost
    /\ UNCHANGED << state_file, watch >>

Next == MainStart \/ HandleAccount \/ PostMedia \/ PostFallback \/ PostAdvance
        \/ MainSave \/ Exit

Spec == Init /\ [][Next]_vars

\* ------------------------------------------- the delta selection on its own
MkTweet(id) == [id |-> id, url |-> <<"/u", "/status/">> \o id, text |-> "",
                media |-> <<>>]

IdPool == { <<"2">>, <<"9">>, <<"0", "9">>, <<"1", "0">>, <<"1", "2">> }

TweetPool == { MkTweet(id) : id \in IdPool }

\* handle_account's inputs at line 167: any list of extracted posts with
\* numeric ids, and no cursor or any cursor the program can have stored.
SelectInputs ==
    /\ state_file = Absent
    /\ state \in {EmptyDict} \cup { DictSet(EmptyDict, "alice", id) : id \in IdPool }
    /\ pc = "select"
    /\ run = 0
    /\ accounts = <<"alice">>
    /\ acc_i = 1
    /\ tweets \in SeqsUpTo(TweetPool, MaxLen) \ { <<>> }
    /\ to_send = <<>>
    /\ post_i = 1
    /\ media_i = 1
    /\ sent_any = FALSE
    /\ post = NewPost
    /\ handled = <<"alice">>
    /\ result = "running"
    /\ errors = {}
    /\ saves = 0
    /\ watch = "alice"
    /\ done_prev = {}
    /\ done_now = {}
    /\ seen_prev = Unseen
    /\ seen_now = Unseen

\* Lines 167-169 applied to the inputs.
SelectStep ==
    /\ pc = "select"
    /\ to_send' = Select(tweets, DictGet(state, username))
    /\ pc' = "selected"
    /\ UNCHANGED << state_file, state, run, accounts, acc_i, tweets, post_i,
                    media_i, sent_any, post, handled, result, errors, saves,
                    watch, done_prev, done_now, seen_prev, seen_now >>

SpecSelect == SelectInputs /\ [][SelectStep]_vars

\* ------------------------------------------------------------------ properties
InPost == pc \in {"post", "advance"}

\* The cursor the state file holds for an account.
FileCursor(a) == DictGet(load_state(state_file), a)

CursorLeq(c, d) == c = NoCursor \/ (d # NoCursor /\ int(c) <= int(d))

LastHandled == handled[Len(handled)]

MaxInt(ts) == CHOOSE m \in { int(ts[i].id) : i \in 1..Len(ts) } :
                 \A i \in 1..Len(ts) : int(ts[i].id) <= m

\* C1: no post of an account is relayed in more than one run: the posts
\* selected for the account in a run contain no id that handle_account
\* processed for it in an earlier run, whatever the outcomes were.
C1_RelayedInOneRunOnly ==
    (InPost /\ username = watch) =>
        \A i \in 1..Len(to_send) : to_send[i].id \notin done_prev

\* A later run whose page still shows a post processed in an earlier run,
\* next to a new one that is being relayed.
C1_Witness ==
    /\ InPost
    /\ username = watch
    /\ run >= 1
    /\ \E i \in 1..Len(tweets) : tweets[i].id \in done_prev

\* C2: the cursor of an account is never rewound and never reverts to absent:
\* not in the state file across saves, not in memory while a run goes on, and
\* not by the load at the start of a run.
C2_CursorNeverRewound ==
    [][/\ state_file' # state_file
            => \A a \in Accounts : CursorLeq(FileCursor(a), FileCursor(a)')
       /\ (state' # state /\ pc \in {"loop", "post", "advance"} /\ pc' # "idle")
            => \A a \in Accounts : CursorLeq(DictGet(state, a), DictGet(state', a))
       /\ (pc = "idle" /\ pc' = "loop")
            => \A a \in Accounts : CursorLeq(FileCursor(a), DictGet(state', a))]_vars

\* A run that moved a cursor an earlier run had saved.
C2_Witness ==
    /\ pc = "loop"
    /\ result = "relayed"
    /\ FileCursor(LastHandled) # NoCursor
    /\ int(FileCursor(LastHandled)) < int(DictGet(state, LastHandled))

\* C3: the selection is the reference function: with no cursor every post,
\* else exactly the posts whose id is greater than the cursor as integers,
\* each as often as the page has it, in ascending numeric order.
C3_SelectionIsReference ==
    pc = "selected" =>
        LET last_seen == DictGet(state, username)
            wanted(x) == last_seen = NoCursor \/ int(x.id) > int(last_seen)
            count(q, x) == Cardinality({ i \in 1..Len(q) : q[i] = x })
        IN  /\ \A x \in TweetPool :
                 count(to_send, x) = IF wanted(x) THEN count(tweets, x) ELSE 0
            /\ \A i, j \in 1..Len(to_send) :
                 i < j => int(to_send[i].id) <= int(to_send[j].id)

\* Cursor "9" and a page with "10" (newer as an integer, smaller as a string)
\* before "2" (older as an integer): "10" is selected and "2" is not.
C3_Witness ==
    /\ pc = "selected"
    /\ DictGet(state, username) = <<"9">>
    /\ tweets = << MkTweet(<<"1", "0">>), MkTweet(<<"2">>), MkTweet(<<"1", "2">>) >>
    /\ to_send = << MkTweet(<<"1", "0">>), MkTweet(<<"1", "2">>) >>

\* C4: idempotence: when a run extracts for an account the posts the previous
\* run extracted for it, it selects none of them, so it sends nothing.
C4_Idempotent ==
    (InPost /\ username = watch) =>
        ~(seen_prev.seen /\ seen_prev.ids = Ids(tweets))

\* The second of two runs that saw the same posts, the first having relayed.
C4_Witness ==
    /\ pc = "loop"
    /\ handled # <<>>
    /\ LastHandled = watch
    /\ result = "no_new"
    /\ seen_prev.seen
    /\ seen_prev.ids = Ids(tweets)
    /\ done_prev = Ids(tweets)

\* C5: when handle_account selected posts, then after it returned the
\* account's cursor is the largest numeric id among the extracted posts,
\* whatever the probes, downloads and sends gave.
C5_CursorIsNewest ==
    (pc = "loop" /\ result = "relayed") =>
        /\ DictGet(state, LastHandled) # NoCursor
        /\ int(DictGet(state, LastHandled)) = MaxInt(tweets)

\* handle_account returned after a post for which every send failed, the
\* fallback text included.
C5_Witness ==
    /\ pc = "loop"
    /\ result = "relayed"
    /\ post.fallback
    /\ ~post.fallback_ok
    /\ ~post.any_ok
    /\ DictGet(state, LastHandled) = to_send[Len(to_send)].id

\* C6: in a run with accounts, the accounts are handed to handle_account in
\* file order, also after an error, and save_state runs once, after the last
\* account and never before.
C6_AllHandledThenOneSave ==
    /\ pc \in {"loop", "post", "advance"} =>
          /\ saves = 0
          /\ handled = SubSeq(accounts, 1, Len(handled))
          /\ Len(handled) = IF InPost THEN acc_i ELSE acc_i - 1
    /\ (pc = "exit" /\ accounts # <<>>) => (saves = 1 /\ handled = accounts)
    /\ saves > 0 => (pc = "exit" /\ handled = accounts)

\* The state was saved after two accounts, the first of which raised.
C6_Witness ==
    /\ pc = "exit"
    /\ saves = 1
    /\ Len(accounts) = 2
    /\ accounts[1] \in errors
    /\ handled = accounts

\* C7: a media item whose probe reported more than the maximum is not
\* downloaded; a text notice naming its URL is sent, and the loop is at the
\* next item.
C7_TooLargeNotDownloaded ==
    (pc = "post" /\ post.last # NoStep /\ post.last.big) =>
        /\ ~post.last.downloaded
        /\ post.last.msg.op = "text"
        /\ post.last.msg.kind = "too_large"
        /\ post.last.msg.murl = post.last.murl
        /\ media_i >= 2
        /\ urljoin(t.media[media_i - 1]) = post.last.murl

\* The first item of a post was too large and a next item is waiting.
C7_Witness ==
    /\ pc = "post"
    /\ post.last.big
    /\ media_i = 2
    /\ media_i <= Len(t.media)

\* C8 as claimed: a post with media none of whose sends returned success
\* gets the fallback text before the cursor is advanced.
C8_FallbackWhenNoSendSucceeded ==
    (pc = "advance" /\ t.media # <<>> /\ ~post.any_ok) => post.fallback

\* C8 as amended: a post with media of which no item was sent successfully
\* and no item was too large gets the fallback text before the cursor is
\* advanced; a post with an item that was too large gets none.
C8_FallbackWhenNotMarkedSent ==
    (pc = "advance" /\ t.media # <<>>) =>
        /\ (~post.media_ok /\ ~post.big_seen) => post.fallback
        /\ post.big_seen => ~post.fallback

\* The fallback text was sent for a post whose downloads all failed.
C8_Witness ==
    /\ pc = "advance"
    /\ t.media # <<>>
    /\ post.fallback
    /\ post.last.msg.kind = "no_download"

\* C9 as claimed: after a media item of the post was sent successfully, a
\* later item that is dispatched (photo, video or raw link) has no caption.
C9_CaptionOnFirstSentOnly ==
    (pc = "post" /\ post.last.after_ok
       /\ post.last.msg.kind \in {"upload", "raw_link"})
        => post.last.msg.caption = NoCaption

\* C9 as amended: after a media item of the post was sent successfully, a
\* later photo or video upload has no caption; a raw link text always
\* carries the caption.
C9_CaptionOnFirstUploadOnly ==
    pc = "post" =>
        /\ (post.last.after_ok /\ post.last.msg.kind = "upload")
              => post.last.msg.caption = NoCaption
        /\ post.last.msg.kind = "raw_link"
              => post.last.msg.caption = CaptionOf(username, t)

\* The video of a post was uploaded after its photo had been sent.
C9_Witness ==
    /\ pc = "post"
    /\ post.last.after_ok
    /\ post.last.msg.op = "video"
    /\ post.last.msg.kind = "upload"
    /\ post.last.msg.caption = NoCaption

\* C10: a malformed item costs only itself: when handle_account is over,
\* every post of the page with a numeric id that was newer than the cursor
\* has been relayed, and the cursor is the newest of them.
C10_MalformedItemOnlyOmitted ==
    (pc = "loop" /\ result \in {"no_tweets", "no_new", "raised", "relayed"}) =>
        LET before == FileCursor(LastHandled)
            good == { i \in 1..Len(tweets) :
                        /\ IsNumeric(tweets[i].id)
                        /\ before = NoCursor \/ int(tweets[i].id) > int(before) }
        IN  good # {} =>
              /\ result = "relayed"
              /\ \A i \in good : int(tweets[i].id) <= int(DictGet(state, LastHandled))

====
